---- MODULE Spec2Model ----
(***************************************************************************)
(* Model of the Valohai deployment workflow of                             *)
(* valohai_deployment_action/valohai_deployment.py: the command-line       *)
(* entry point, create_version, get_datum_ids_of_files_for_deployment and  *)
(* check_api, run against a platform whose responses are chosen            *)
(* nondeterministically.                                                   *)
(*                                                                         *)
(* Python strings that are searched with `in` are sequences of             *)
(* one-character strings; a dict is a function; a list is a sequence.      *)
(*                                                                         *)
(* The platform creates a version when it answers the creation request     *)
(* with 201, repoints an alias when it answers the update with 200 and     *)
(* adds an alias when it answers the creation with 201; any other answer   *)
(* leaves it as it was. An answer is a status and a body, which parses as  *)
(* JSON or does not; network exceptions of the requests are left out.      *)
(***************************************************************************)
EXTENDS Integers, Sequences, FiniteSets, TLC

----------------------------------------------------------------------------
(* Bounds of the model *)

MaxFiles == 2
MaxCatalog == 2
MaxAliases == 2
MaxRuns == 2
MaxPad == 1

----------------------------------------------------------------------------
(* Python helpers *)

\* Python's `sub in s` on strings
Contains(s, sub) ==
    \E i \in 0..(Len(s) - Len(sub)) : SubSeq(s, i + 1, i + Len(sub)) = sub

\* all sequences over S of length at most n
SeqsUpTo(S, n) == UNION {[1..k -> S] : k \in 0..n}

\* the empty dict
EmptyDict == [x \in {} |-> 0]

\* dict(d, k=v): later assignments to a key replace earlier ones
DictPut(d, k, v) == [x \in (DOMAIN d) \cup {k} |-> IF x = k THEN v ELSE d[x]]

\* set(d.values())
Values(d) == {d[k] : k \in DOMAIN d}

----------------------------------------------------------------------------
(* Module-level constants of the script *)

DELAY_TIMES == [relation |-> 1800, ner |-> 600, event |-> 1200]

\* 'real-relationship'
RELATION_MARKER ==
    <<"r","e","a","l","-","r","e","l","a","t","i","o","n","s","h","i","p">>

\* "ner_v1_aug_21"
NER_MARKER == <<"n","e","r","_","v","1","_","a","u","g","_","2","1">>

\* the two probe payload files
RELATION_NER_TEST_DATA == "mlops/test_data/relation_ner_test_data.json"
EVENT_TEST_DATA == "mlops/test_data/event_test_data.json"

\* 'do-not-deploy'
DO_NOT_DEPLOY == <<"d","o","-","n","o","t","-","d","e","p","l","o","y">>

\* 'dnd'
DND == <<"d","n","d">>

\* 'read-me-like'
READ_ME_LIKE == <<"r","e","a","d","-","m","e","-","l","i","k","e">>

\* os.getenv("PROJECT_ID") and os.getenv("DEPLOYMENT_ID")
PROJECT_ID == "P"
DEPLOYMENT_ID == "D"

----------------------------------------------------------------------------
(* Inputs *)

\* --commit_message: absent (default None) or a string
NoMessage == [given |-> FALSE, text |-> <<>>]
Message(t) == [given |-> TRUE, text |-> t]

Pads == SeqsUpTo({"d", "x"}, MaxPad)

MessageCores ==
    { DO_NOT_DEPLOY, DND, READ_ME_LIKE,
      <<>>, <<"d","n">>, <<"D","N","D">>, <<"d","-","n","-","d">>,
      <<"d","o","-","n","o","t","-","d","e","p","l","o">>,
      <<"D","o","-","n","o","t","-","d","e","p","l","o","y">>,
      <<"r","e","a","d","-","m","e">>,
      <<"r","e","a","d","_","m","e","-","l","i","k","e">> }

Messages ==
    {NoMessage} \cup {Message(a \o c \o b) : a \in Pads, b \in Pads, c \in MessageCores}

\* response['endpoint_urls']['predict'] as the platform may return it
UrlHead == <<"h","/">>
UrlTail == <<"/","p">>
UrlCores ==
    { RELATION_MARKER, NER_MARKER,
      <<"r","e","a","l","-","e","v","e","n","t","s">>,
      RELATION_MARKER \o <<"/">> \o NER_MARKER,
      NER_MARKER \o <<"/">> \o RELATION_MARKER,
      <<"R","E","A","L","-","r","e","l","a","t","i","o","n","s","h","i","p">>,
      <<"n","e","r","_","v","1">> }
Urls == {UrlHead \o c \o UrlTail : c \in UrlCores}

\* valohai_config[0]["endpoint"]: the "files" key may be absent; when present
\* it is a list of {name, path}
FileNames == {"a", "b"}
Paths == {"p", "q"}
FileEntries == [name : FileNames, path : Paths]
NoFilesKey == [present |-> FALSE, list |-> <<>>]
EndpointConfigs ==
    {NoFilesKey} \cup {[present |-> TRUE, list |-> l] : l \in SeqsUpTo(FileEntries, MaxFiles)}

\* datums["results"]: entries {project: {id}, datum: {name, id}}; the id of a
\* datum is unique, here its position in the listing
Projects == {PROJECT_ID, "Q"}
DatumEntries == [project : Projects, name : Paths]
Catalogs == SeqsUpTo(DatumEntries, MaxCatalog)
DatumId(i) == i

\* HTTP answers: a status and whether the body parses as JSON. The answers
\* whose status is compared with one code get 200, 201 and an error; those
\* whose status is not read, or read by raise_for_status() only, get a success
\* and an error.
Statuses == {200, 201, 500}
PlainStatuses == {200, 500}
Bodies == {"json", "not_json"}
ListBodies == {"json", "not_json", "no_results"}
Unread == "unread"

\* the platform's aliases of the project: {name, deployment, target}; the
\* "url" of an alias is its position in the list
AliasNames == {"staging", "production"}
Deployments == {DEPLOYMENT_ID, "E"}
AliasRecords == [name : AliasNames, deployment : Deployments, target : {0}]

----------------------------------------------------------------------------
(* The pure parts of the script *)

\* mutant: the 'dnd' marker is left out
DeploymentCancelled_NoDnd(commit_message) ==
    /\ commit_message.given
    /\ \/ Contains(commit_message.text, DO_NOT_DEPLOY)
       \/ Contains(commit_message.text, READ_ME_LIKE)

\* command line: the cancellation test on --commit_message
DeploymentCancelled(commit_message) ==
    /\ commit_message.given
    /\ \/ Contains(commit_message.text, DO_NOT_DEPLOY)
       \/ Contains(commit_message.text, DND)
       \/ Contains(commit_message.text, READ_ME_LIKE)

\* dict((file["name"], file["path"]) for file in files)
RECURSIVE required_data_files(_)
required_data_files(files) ==
    IF files = <<>>
    THEN EmptyDict
    ELSE LET n == Len(files)
         IN DictPut(required_data_files(SubSeq(files, 1, n - 1)),
                    files[n].name, files[n].path)

\* mutant: the first entry of a name is kept
RECURSIVE DatumIdsUpTo_FirstWins(_, _)
DatumIdsUpTo_FirstWins(datums, n) ==
    IF n = 0
    THEN EmptyDict
    ELSE LET d == DatumIdsUpTo_FirstWins(datums, n - 1)
         IN IF datums[n].project = PROJECT_ID /\ datums[n].name \notin DOMAIN d
            THEN DictPut(d, datums[n].name, DatumId(n))
            ELSE d

\* the loop over datums["results"], through its first n entries
RECURSIVE DatumIdsUpTo(_, _)
DatumIdsUpTo(datums, n) ==
    IF n = 0
    THEN EmptyDict
    ELSE LET d == DatumIdsUpTo(datums, n - 1)
         IN IF datums[n].project = PROJECT_ID
            THEN DictPut(d, datums[n].name, DatumId(n))
            ELSE d

datum_ids_of(datums) == DatumIdsUpTo(datums, Len(datums))

\* mutant: containment in the place of equality
AllCovered_Subset(required, ids) == Values(required) \subseteq DOMAIN ids

\* set(required_data_files.values()) == set(datum_ids.keys())
AllCovered(required, ids) == Values(required) = DOMAIN ids

\* dict((file, datum_ids[path]) for file, path in required_data_files.items())
FilesPayload(required, ids) == [file \in DOMAIN required |-> ids[required[file]]]

\* Response.raise_for_status(): raises for 4xx and 5xx
RaisesForStatus(status) == status >= 400

\* the for ... if alias_name == aliases["name"] ... break scan: the position
\* of the entry that is updated, 0 when the else branch of the for runs
RECURSIVE ScanFrom(_, _, _)
ScanFrom(results, name, i) ==
    IF i > Len(results) THEN 0
    ELSE IF name = results[i].name THEN i
    ELSE ScanFrom(results, name, i + 1)

\* mutant: the scan without its break, the last entry of the name is taken
MatchingAlias_Last(results, name) ==
    LET m == {j \in DOMAIN results : results[j].name = name}
    IN IF m = {} THEN 0 ELSE CHOOSE j \in m : \A k \in m : k <= j

MatchingAlias(results, name) == ScanFrom(results, name, 1)

\* mutant: the NER marker is looked for first
DelayFor_NerFirst(url) ==
    IF Contains(url, NER_MARKER) THEN DELAY_TIMES.ner
    ELSE IF Contains(url, RELATION_MARKER) THEN DELAY_TIMES.relation
    ELSE DELAY_TIMES.event

\* check_api: the sleep
DelayFor(url) ==
    IF Contains(url, RELATION_MARKER) THEN DELAY_TIMES.relation
    ELSE IF Contains(url, NER_MARKER) THEN DELAY_TIMES.ner
    ELSE DELAY_TIMES.event

\* check_api: the probe payload
DataFor(url) ==
    IF Contains(url, RELATION_MARKER) \/ Contains(url, NER_MARKER)
    THEN RELATION_NER_TEST_DATA
    ELSE EVENT_TEST_DATA

----------------------------------------------------------------------------
(* State *)

VARIABLES
    commit_message,  \* args.commit_message
    endpoint,        \* valohai_config[0]["endpoint"]
    alias_name,      \* args.alias_name
    aliases,         \* platform: the aliases of the project
    aliases0,        \* platform: the aliases when the first run started
    versions,        \* platform: number of versions created, the last one's id
    runs,            \* number of runs of the script started
    pc,              \* position of the current run
    error,           \* the exception that ended the run, "" if none
    reqs,            \* the HTTP requests of the current run, in order
    datums,          \* datums["results"] as received
    datum_ids,       \* the value returned by the artifact resolution
    response,        \* version and predict url of the version response
    results,         \* the alias listing's "results" as received
    delay,           \* seconds slept by check_api
    data             \* probe payload file sent by check_api

vars == <<commit_message, endpoint, alias_name, aliases, aliases0, versions, runs, pc,
          error, reqs, datums, datum_ids, response, results, delay, data>>

inputs == <<commit_message, endpoint, alias_name, aliases0>>
platform == <<aliases, versions>>

Req(op, arg, status, body) == [op |-> op, arg |-> arg, status |-> status, body |-> body]

NoResponse == [version |-> 0, url |-> <<>>]

FreshRun ==
    /\ pc = "main"
    /\ error = ""
    /\ reqs = <<>>
    /\ datums = <<>>
    /\ datum_ids = EmptyDict
    /\ response = NoResponse
    /\ results = <<>>
    /\ delay = 0
    /\ data = ""

\* One run's inputs. The three parts of the workflow that read them do not read
\* each other's: the command line reads the message, the artifact resolution
\* the endpoint configuration, the alias step the platform's aliases. Each is
\* varied in full with the other two at their defaults.
Init ==
    /\ \/ /\ commit_message \in Messages
          /\ endpoint = NoFilesKey
          /\ aliases = <<>>
       \/ /\ commit_message = NoMessage
          /\ endpoint \in EndpointConfigs
          /\ aliases = <<>>
       \/ /\ commit_message = NoMessage
          /\ endpoint = NoFilesKey
          /\ aliases \in SeqsUpTo(AliasRecords, MaxAliases)
    /\ aliases0 = aliases
    /\ alias_name = "staging"
    /\ versions = 0
    /\ runs = 1
    /\ FreshRun

Raise(e) == pc' = "failed" /\ error' = e

----------------------------------------------------------------------------
(* Steps of a run *)

\* __main__: cancel, or call create_version
Main ==
    /\ pc = "main"
    /\ pc' = IF DeploymentCancelled(commit_message) THEN "cancelled" ELSE "fetch_repo"
    /\ UNCHANGED <<inputs, platform, runs, error, reqs, datums, datum_ids,
                   response, results, delay, data>>

\* mutant: the answer to the fetch is checked with raise_for_status()
FetchRepoChanges_Checked ==
    /\ pc = "fetch_repo"
    /\ \E status \in PlainStatuses :
          /\ reqs' = Append(reqs, Req("fetch_repo", 0, status, Unread))
          /\ IF RaisesForStatus(status)
             THEN Raise("HTTPError")
             ELSE pc' = "datum_ids" /\ UNCHANGED error
    /\ UNCHANGED <<inputs, platform, runs, datums, datum_ids,
                   response, results, delay, data>>

\* create_version: the projects/<id>/fetch/ request; its answer is not read
FetchRepoChanges ==
    /\ pc = "fetch_repo"
    /\ \E status \in PlainStatuses :
          reqs' = Append(reqs, Req("fetch_repo", 0, status, Unread))
    /\ pc' = "datum_ids"
    /\ UNCHANGED <<inputs, platform, runs, error, datums, datum_ids,
                   response, results, delay, data>>

\* get_datum_ids_of_files_for_deployment, the whole call
GetDatumIds ==
    /\ pc = "datum_ids"
    /\ IF ~endpoint.present \/ DOMAIN required_data_files(endpoint.list) = {}
       THEN /\ datum_ids' = EmptyDict
            /\ pc' = "create_version"
            /\ UNCHANGED <<error, reqs, datums>>
       ELSE \E status \in PlainStatuses, body \in ListBodies, catalog \in Catalogs :
              LET received == IF RaisesForStatus(status) \/ body # "json"
                              THEN <<>> ELSE catalog
                  required == required_data_files(endpoint.list)
                  ids      == datum_ids_of(received)
              IN /\ reqs' = Append(reqs, Req("datum_aliases", 0, status, body))
                 /\ datums' = received
                 /\ IF RaisesForStatus(status)
                    THEN Raise("HTTPError") /\ UNCHANGED datum_ids
                    ELSE IF body = "not_json"
                    THEN Raise("JSONDecodeError") /\ UNCHANGED datum_ids
                    ELSE IF body = "no_results"
                    THEN Raise("KeyError") /\ UNCHANGED datum_ids
                    ELSE IF AllCovered(required, ids)
                    THEN /\ datum_ids' = FilesPayload(required, ids)
                         /\ pc' = "create_version"
                         /\ UNCHANGED error
                    ELSE Raise("MissingDatumException") /\ UNCHANGED datum_ids
    /\ UNCHANGED <<inputs, platform, runs, response, results, delay, data>>

\* mutant: the status of the answer is not checked
CreateVersion_StatusNotChecked ==
    /\ pc = "create_version"
    /\ \E status \in Statuses, body \in Bodies :
          LET created == IF status = 201 THEN versions + 1 ELSE versions
          IN /\ reqs' = Append(reqs, Req("create_version", 0, status, body))
             /\ versions' = created
             /\ IF body = "not_json"
                THEN Raise("JSONDecodeError") /\ UNCHANGED response
                ELSE /\ response' = [response EXCEPT !.version = created]
                     /\ pc' = "get_aliases"
                     /\ UNCHANGED error
    /\ UNCHANGED <<inputs, aliases, runs, datums, datum_ids, results, delay, data>>

\* create_version: the deployment-versions/ request and the check of its answer
CreateVersion ==
    /\ pc = "create_version"
    /\ \E status \in Statuses, body \in Bodies :
          LET created == IF status = 201 THEN versions + 1 ELSE versions
          IN /\ reqs' = Append(reqs, Req("create_version", 0, status, body))
             /\ versions' = created
             /\ IF body = "not_json"
                THEN Raise("JSONDecodeError") /\ UNCHANGED response
                ELSE IF status # 201
                THEN Raise("VersionNotCreatedException") /\ UNCHANGED response
                ELSE /\ response' = [response EXCEPT !.version = created]
                     /\ pc' = "get_aliases"
                     /\ UNCHANGED error
    /\ UNCHANGED <<inputs, aliases, runs, datums, datum_ids, results, delay, data>>

\* what an alias listing can answer: "results" comes with a 2xx answer only
ListAnswers ==
    {a \in [status : PlainStatuses, body : ListBodies] :
        RaisesForStatus(a.status) => a.body # "json"}

\* create_version: the deployment-version-aliases/ listing; its status is not
\* read, its body is parsed and its "results" are taken
GetAliases ==
    /\ pc = "get_aliases"
    /\ \E a \in ListAnswers :
          /\ reqs' = Append(reqs, Req("get_aliases", 0, a.status, a.body))
          /\ IF a.body = "not_json"
             THEN Raise("JSONDecodeError") /\ UNCHANGED results
             ELSE IF a.body = "no_results"
             THEN Raise("KeyError") /\ UNCHANGED results
             ELSE /\ results' = aliases
                  /\ pc' = "reconcile"
                  /\ UNCHANGED error
    /\ UNCHANGED <<inputs, platform, runs, datums, datum_ids, response, delay, data>>

\* create_version: the for/else over the listed aliases, with the one request
\* it sends: PUT to the first entry of that name, or POST when there is none
ReconcileAlias ==
    /\ pc = "reconcile"
    /\ \E status \in Statuses, body \in Bodies :
          LET i == MatchingAlias(results, alias_name)
          IN IF i # 0
             THEN /\ reqs' = Append(reqs, Req("alias_update", i, status, body))
                  /\ aliases' = IF status = 200
                                THEN [aliases EXCEPT ![i].target = response.version,
                                                     ![i].name = alias_name]
                                ELSE aliases
                  /\ IF body = "not_json" THEN Raise("JSONDecodeError")
                     ELSE IF status # 200 THEN Raise("AliasNotCreatedException")
                     ELSE pc' = "check_api" /\ UNCHANGED error
             ELSE /\ reqs' = Append(reqs, Req("alias_create", 0, status, body))
                  /\ aliases' = IF status = 201
                                THEN Append(aliases, [name |-> alias_name,
                                                      deployment |-> DEPLOYMENT_ID,
                                                      target |-> response.version])
                                ELSE aliases
                  /\ IF body = "not_json" THEN Raise("JSONDecodeError")
                     ELSE IF status # 201 THEN Raise("AliasNotCreatedException")
                     ELSE pc' = "check_api" /\ UNCHANGED error
    /\ UNCHANGED <<inputs, versions, runs, datums, datum_ids, response, results,
                   delay, data>>

\* url = response['endpoint_urls']['predict']; check_api(url): the predict url
\* of the version response is drawn here, where it is first read; the body of
\* the probe's answer is not read. ApiNotWorkingException is imported from
\* custom_exceptions (line 11), whose file does not define it; the run is
\* taken past that import.
CheckApi ==
    /\ pc = "check_api"
    /\ \E url \in Urls, status \in Statuses :
          /\ response' = [response EXCEPT !.url = url]
          /\ delay' = DelayFor(url)
          /\ data' = DataFor(url)
          /\ reqs' = Append(reqs, Req("check_api", 0, status, Unread))
          /\ IF status # 200
             THEN Raise("ApiNotWorkingException")
             ELSE pc' = "done" /\ UNCHANGED error
    /\ UNCHANGED <<inputs, platform, runs, datums, datum_ids, results>>

\* the script is started again (the next CI run) against the same platform
NextRun ==
    /\ pc \in {"cancelled", "done", "failed"}
    /\ runs < MaxRuns
    /\ runs' = runs + 1
    /\ pc' = "main"
    /\ error' = ""
    /\ reqs' = <<>>
    /\ datums' = <<>>
    /\ datum_ids' = EmptyDict
    /\ response' = NoResponse
    /\ results' = <<>>
    /\ delay' = 0
    /\ data' = ""
    /\ UNCHANGED <<inputs, platform>>

Next ==
    \/ Main
    \/ FetchRepoChanges
    \/ GetDatumIds
    \/ CreateVersion
    \/ GetAliases
    \/ ReconcileAlias
    \/ CheckApi
    \/ NextRun

Spec == Init /\ [][Next]_vars

----------------------------------------------------------------------------
(* Vocabulary of the properties *)

\* positions of the requests of one kind in the current run
Sent(op) == {i \in DOMAIN reqs : reqs[i].op = op}

\* the artifact listing was answered with a catalog
CatalogReceived ==
    \E i \in Sent("datum_aliases") :
        ~RaisesForStatus(reqs[i].status) /\ reqs[i].body = "json"

\* files are required: the "files" key is there and its list is not empty
FilesRequired == endpoint.present /\ endpoint.list # <<>>

\* the artifact paths the required_files list names
RequiredPaths == {endpoint.list[i].path : i \in DOMAIN endpoint.list}

\* the paths of the name-to-path mapping: the last entry of a logical name
PathOfName(n) ==
    LET last == CHOOSE i \in DOMAIN endpoint.list :
                    /\ endpoint.list[i].name = n
                    /\ \A j \in DOMAIN endpoint.list :
                          endpoint.list[j].name = n => j <= i
    IN endpoint.list[last].path
MappedPaths == {PathOfName(endpoint.list[i].name) : i \in DOMAIN endpoint.list}

\* the received catalog entries of the configured project that carry a name
EntriesNamed(p) ==
    {i \in DOMAIN datums : datums[i].project = PROJECT_ID /\ datums[i].name = p}
CatalogNames ==
    {datums[i].name : i \in {j \in DOMAIN datums : datums[j].project = PROJECT_ID}}

Max(S) == CHOOSE x \in S : \A y \in S : y <= x
Min(S) == CHOOSE x \in S : \A y \in S : x <= y

----------------------------------------------------------------------------
(* C1 *)

\* C1, as stated: with files required and a catalog received, if the set of
\* the required artifact paths differs from the set of the catalog names of the
\* configured project, the resolution fails with MissingDatumException and no
\* version-creation request is sent in the run.
C1_AsStated ==
    (FilesRequired /\ CatalogReceived /\ RequiredPaths # CatalogNames)
        => (error = "MissingDatumException" /\ Sent("create_version") = {})

\* C1, amended: the same with the paths of the name-to-path mapping built from
\* required_files (a repeated logical name keeps its last path only) in the
\* place of the paths of the list.
C1_MappedPathsMismatchFails ==
    (FilesRequired /\ CatalogReceived /\ MappedPaths # CatalogNames)
        => (error = "MissingDatumException" /\ Sent("create_version") = {})

\* a catalog with a name nobody requires, all required paths being there, fails
C1_Witness ==
    /\ FilesRequired /\ CatalogReceived
    /\ MappedPaths # CatalogNames
    /\ MappedPaths \subseteq CatalogNames
    /\ pc = "failed" /\ error = "MissingDatumException"

----------------------------------------------------------------------------
(* C5 *)

\* the resolution returned a mapping
Resolved == FilesRequired /\ CatalogReceived /\ error # "MissingDatumException"

\* C5, as stated: with files required and a catalog received, if some required
\* path matches no entry of the project in the catalog, or more than one entry
\* of the project carries its name, the run is aborted and no version-creation
\* request is sent.
C5_AsStated ==
    (FilesRequired /\ CatalogReceived
        /\ \E p \in RequiredPaths : Cardinality(EntriesNamed(p)) # 1)
        => (pc = "failed" /\ Sent("create_version") = {})

\* C5, amended: if a path of the name-to-path mapping matches no entry of the
\* project in the received catalog, the resolution fails and no
\* version-creation request is sent; several entries of the project with one
\* name do not fail it, and the file then gets the id of the last such entry.
C5_UnmatchedPathFailsLastEntryWins ==
    /\ (FilesRequired /\ CatalogReceived
          /\ \E p \in MappedPaths : EntriesNamed(p) = {})
          => (error = "MissingDatumException" /\ Sent("create_version") = {})
    /\ Resolved =>
          /\ DOMAIN datum_ids = {endpoint.list[i].name : i \in DOMAIN endpoint.list}
          /\ \A n \in DOMAIN datum_ids :
                /\ EntriesNamed(PathOfName(n)) # {}
                /\ datum_ids[n] = DatumId(Max(EntriesNamed(PathOfName(n))))

\* two entries of the project carry a required name and the version is created
\* with the id of the second
C5_Witness ==
    /\ Resolved
    /\ \E n \in DOMAIN datum_ids :
          /\ Cardinality(EntriesNamed(PathOfName(n))) = 2
          /\ datum_ids[n] = DatumId(2)
    /\ \E i \in Sent("create_version") : reqs[i].status = 201
    /\ pc = "done"

----------------------------------------------------------------------------
(* C2 *)

\* C2, as stated: whenever the version-creation request is answered with a
\* status other than 201, the run fails with VersionNotCreatedException and no
\* alias-listing, alias-update, alias-create or probe request is sent.
C2_AsStated ==
    \A i \in Sent("create_version") :
        reqs[i].status # 201
            => /\ pc = "failed"
               /\ error = "VersionNotCreatedException"
               /\ Sent("get_aliases") = {}
               /\ Sent("alias_update") = {}
               /\ Sent("alias_create") = {}
               /\ Sent("check_api") = {}

----------------------------------------------------------------------------
(* C3 *)

\* the alias listing was answered with a list and the for/else has run
Reconciled ==
    /\ \E i \in Sent("get_aliases") : reqs[i].body = "json"
    /\ pc # "reconcile"

\* positions of the listed aliases called alias_name
ListedMatches == {j \in DOMAIN results : results[j].name = alias_name}

\* C3: once the alias step has run on a received list: if the list has at
\* least one alias called alias_name, exactly one alias-update request has been
\* sent, to the first such entry, and no alias-create request; if it has none,
\* exactly one alias-create request and no alias-update request.
C3_OneUpdateOrOneCreate ==
    Reconciled =>
        IF ListedMatches # {}
        THEN /\ Cardinality(Sent("alias_update")) = 1
             /\ Sent("alias_create") = {}
             /\ \A i \in Sent("alias_update") : reqs[i].arg = Min(ListedMatches)
        ELSE /\ Cardinality(Sent("alias_create")) = 1
             /\ Sent("alias_update") = {}

\* a list with two aliases of the name, the update sent to the first
C3_Witness ==
    /\ Reconciled
    /\ Cardinality(ListedMatches) >= 2
    /\ \E i \in Sent("alias_update") : reqs[i].arg = Min(ListedMatches)
    /\ Min(ListedMatches) # Max(ListedMatches)

----------------------------------------------------------------------------
(* C4 *)

\* the aliases called alias_name that belong to the deployment
OwnAliases(al) ==
    {i \in DOMAIN al : al[i].name = alias_name /\ al[i].deployment = DEPLOYMENT_ID}

\* the alias step of the current run sent its request and accepted the answer
AliasStepSucceeded ==
    \/ \E i \in Sent("alias_update") : reqs[i].status = 200 /\ reqs[i].body = "json"
    \/ \E i \in Sent("alias_create") : reqs[i].status = 201 /\ reqs[i].body = "json"

\* C4, as stated: if the deployment had at most one alias called alias_name
\* when the first run started, it has at most one after any sequence of runs,
\* and after a run whose alias step succeeded that alias targets the version
\* the run created.
C4_AsStated ==
    Cardinality(OwnAliases(aliases0)) <= 1
        => /\ Cardinality(OwnAliases(aliases)) <= 1
           /\ AliasStepSucceeded
                 => \E i \in OwnAliases(aliases) : aliases[i].target = response.version

----------------------------------------------------------------------------
(* C6 *)

AliasStepFailure ==
    /\ pc = "failed"
    /\ error = "AliasNotCreatedException"
    /\ Sent("check_api") = {}

\* C6, as stated: an alias listing answered with a non-success status, an alias
\* update answered with a status other than 200 and an alias creation answered
\* with a status other than 201 each end the run with
\* AliasNotCreatedException, with no probe request sent, and a failed listing
\* is followed by no update and no create request.
C6_AsStated ==
    /\ \A i \in Sent("get_aliases") :
          RaisesForStatus(reqs[i].status)
              => /\ AliasStepFailure
                 /\ Sent("alias_update") = {}
                 /\ Sent("alias_create") = {}
    /\ \A i \in Sent("alias_update") : reqs[i].status # 200 => AliasStepFailure
    /\ \A i \in Sent("alias_create") : reqs[i].status # 201 => AliasStepFailure

----------------------------------------------------------------------------
(* C7 *)

Ops == [i \in DOMAIN reqs |-> reqs[i].op]

\* the order of the requests of a run, x the request of the alias step
RequestOrder(x) ==
    <<"fetch_repo">>
        \o (IF FilesRequired THEN <<"datum_aliases">> ELSE <<>>)
        \o <<"create_version", "get_aliases", x, "check_api">>

IsPrefix(s, t) == Len(s) <= Len(t) /\ \A i \in DOMAIN s : s[i] = t[i]

\* the answer makes its step fail (the answer to the repository fetch never does)
FailedAnswer(r) ==
    CASE r.op = "fetch_repo"     -> FALSE
      [] r.op = "datum_aliases"  -> RaisesForStatus(r.status) \/ r.body # "json"
      [] r.op = "create_version" -> r.status # 201 \/ r.body # "json"
      [] r.op = "get_aliases"    -> RaisesForStatus(r.status) \/ r.body # "json"
      [] r.op = "alias_update"   -> r.status # 200 \/ r.body # "json"
      [] r.op = "alias_create"   -> r.status # 201 \/ r.body # "json"
      [] r.op = "check_api"      -> r.status # 200

C7_Order ==
    /\ \E x \in {"alias_update", "alias_create"} : IsPrefix(Ops, RequestOrder(x))
    /\ \A i \in DOMAIN reqs :
          FailedAnswer(reqs[i]) => (i = Len(reqs) /\ pc = "failed")

RunOver == pc \in {"failed", "done", "cancelled"}

----------------------------------------------------------------------------
(* C8 *)

OptOutMarkers == {DO_NOT_DEPLOY, DND, READ_ME_LIKE}

Marked ==
    /\ commit_message.given
    /\ \E m \in OptOutMarkers : Contains(commit_message.text, m)

\* C8: once the command line has been read: if a commit message is given and
\* has one of the markers as a substring, the run is cancelled without an
\* error, no request is sent and the platform is left as it was; otherwise
\* create_version runs, its first request being the repository fetch.
C8_MarkerCancelsElseRuns ==
    pc # "main" =>
        IF Marked
        THEN /\ pc = "cancelled" /\ error = "" /\ reqs = <<>>
             /\ versions = 0 /\ aliases = aliases0
        ELSE /\ pc # "cancelled"
             /\ pc = "fetch_repo" \/ (reqs # <<>> /\ reqs[1].op = "fetch_repo")

\* a message that holds "dnd" inside a longer text cancels the run
C8_Witness ==
    /\ pc = "cancelled"
    /\ Contains(commit_message.text, DND)
    /\ Len(commit_message.text) > Len(DND)
    /\ reqs = <<>>

----------------------------------------------------------------------------
(* C9 *)

Probed == Sent("check_api") # {}

HasRelation == Contains(response.url, RELATION_MARKER)
HasNer == Contains(response.url, NER_MARKER)

\* C9, as stated: after check_api: a url with the NER marker got the NER delay
\* and the NER payload, a url with the relation marker the relation delay and
\* the relation payload, any other url the event delay and the event payload.
C9_AsStated ==
    Probed =>
        /\ HasNer => (delay = DELAY_TIMES.ner /\ data = RELATION_NER_TEST_DATA)
        /\ HasRelation => (delay = DELAY_TIMES.relation /\ data = RELATION_NER_TEST_DATA)
        /\ (~HasNer /\ ~HasRelation)
              => (delay = DELAY_TIMES.event /\ data = EVENT_TEST_DATA)

\* C9, amended: the relation marker is looked for first: a url with the
\* relation marker got the relation delay, also when it has the NER marker
\* too; a url with the NER marker and without the relation marker the NER
\* delay; both got the payload the two model types share; any other url got
\* the event delay and the event payload.
C9_RelationMarkerFirst ==
    Probed =>
        /\ HasRelation => (delay = DELAY_TIMES.relation /\ data = RELATION_NER_TEST_DATA)
        /\ (HasNer /\ ~HasRelation)
              => (delay = DELAY_TIMES.ner /\ data = RELATION_NER_TEST_DATA)
        /\ (~HasNer /\ ~HasRelation)
              => (delay = DELAY_TIMES.event /\ data = EVENT_TEST_DATA)

\* a url with both markers was probed after the relation delay
C9_Witness ==
    /\ Probed /\ HasRelation /\ HasNer
    /\ delay = DELAY_TIMES.relation
    /\ data = RELATION_NER_TEST_DATA

----------------------------------------------------------------------------
(* C10 *)

LaterStepErrors ==
    {"HTTPError", "JSONDecodeError", "KeyError", "MissingDatumException",
     "VersionNotCreatedException", "AliasNotCreatedException",
     "ApiNotWorkingException"}

\* C10: whatever the status of the answer to the repository fetch, the run
\* goes on to the artifact resolution without an error; a run that fails has
\* sent a later request, and fails with the error of a later step.
C10_FetchAnswerNotRead ==
    /\ Len(reqs) = 1
          => /\ reqs[1].op = "fetch_repo"
             /\ pc \in {"datum_ids", "create_version"}
             /\ error = ""
    /\ pc = "failed"
          => /\ Len(reqs) >= 2
             /\ error \in LaterStepErrors
             /\ FailedAnswer(reqs[Len(reqs)]) \/ error = "MissingDatumException"

\* the fetch was answered 500 and the run went through to the end
C10_Witness ==
    /\ pc = "done"
    /\ reqs[1].op = "fetch_repo" /\ reqs[1].status = 500
    /\ Sent("create_version") # {}

====
